---- MODULE Spec2Model ----
(***************************************************************************)
(* Model of src/main.py: the Todo API (FastAPI handlers over a SQLAlchemy   *)
(* session on a SQLite table "todos").                                      *)
(*                                                                          *)
(* The handlers are plain "def" functions, so the framework runs every      *)
(* request on a worker thread: requests interleave at each database round   *)
(* trip.  A request slot p walks through                                    *)
(*   idle -> handler steps -> close -> done -> idle                         *)
(* Dispatch (idle -> handler) is what the framework does before it calls    *)
(* the handler: the first half of get_db and the binding of the body to     *)
(* TodoCreate.  get_db_finally (close -> done) is the second half of        *)
(* get_db.  Finish frees the slot once the response is sent.                *)
(*                                                                          *)
(* Storage semantics that the handlers rely on:                             *)
(*  - todo_id is an INTEGER PRIMARY KEY without AUTOINCREMENT: a new row    *)
(*    gets max(todo_id)+1, so the id of a deleted last row is handed out    *)
(*    again;                                                                *)
(*  - a query without ORDER BY scans the table in ascending todo_id;        *)
(*  - LIMIT n with n < 0 means "no limit", OFFSET k with k < 0 means 0;     *)
(*  - the session's flush writes only the columns whose value differs from  *)
(*    the value loaded by the query (UPDATE .. SET <changed columns>);      *)
(*  - an UPDATE that matches no row raises (StaleDataError), a DELETE that  *)
(*    matches no row only warns;                                            *)
(*  - flush + COMMIT of one db.commit() is one atomic write transaction;    *)
(*    a SELECT holds no lock once its rows are fetched.                     *)
(***************************************************************************)
EXTENDS Integers, Sequences, FiniteSets, TLC

\* ------------------------------------------------------------------ bounds
NumProcs == 2        \* request slots that may be in flight at once
MaxId    == 2        \* largest todo_id the table is allowed to reach

Procs == 1..NumProcs
Ids   == 1..MaxId
Sids  == 1..NumProcs \* identities of Session objects alive at one time

\* -------------------------------------------------------------- JSON input
\* A raw JSON field of a request body, before validation: its type t, its
\* text s (Null unless it is a string) and its truth value b.
Null == "null"

JStr(s)  == [t |-> "str",  s |-> s,  b |-> FALSE]
JBool(b) == [t |-> "bool", s |-> Null, b |-> b]
JInt     == [t |-> "int",  s |-> Null, b |-> FALSE]
JMissing == [t |-> "missing", s |-> Null, b |-> FALSE]

NoBody == [content |-> JMissing, completed |-> JMissing]

\* Request bodies offered to POST /todos/ and PUT /todos/{todo_id}: valid ones
\* with and without "completed", one without "content", one whose "content"
\* is a number.
Bodies ==
    { [content |-> JStr("a"), completed |-> JMissing],
      [content |-> JStr("b"), completed |-> JMissing],
      [content |-> JStr("a"), completed |-> JBool(TRUE)],
      [content |-> JMissing,  completed |-> JBool(TRUE)],
      [content |-> JInt,      completed |-> JMissing] }

\* Mutant: content declared Optional, so a body without text passes.
ContentOptional(body) == TRUE

\* class TodoBase: content: str (required), completed: bool = False
ContentValid(body) == body.content.t = "str"

CompletedValid(body) == body.completed.t \in {"bool", "missing"}

ValidBody(body) == ContentValid(body) /\ CompletedValid(body)

\* Mutant: completed defaults to True.
model_dump_default_true(body) ==
    [content   |-> body.content.s,
     completed |-> IF body.completed.t = "missing" THEN TRUE
                   ELSE body.completed.b]

\* todo.model_dump(): the validated fields, the default filled in.
model_dump(body) ==
    [content   |-> body.content.s,
     completed |-> IF body.completed.t = "missing" THEN FALSE
                   ELSE body.completed.b]

\* Mutant: model_dump(exclude_unset=True), a partial update.
DumpKeysSet(body) ==
    { k \in {"content", "completed"} : body[k].t # "missing" }

\* The keys of todo.model_dump(): every field of the schema, set or defaulted.
DumpKeys(body) == {"content", "completed"}

\* ------------------------------------------------------------------- table
\* class TodoItem: a row of "todos".  todo_id = 0 stands for "not assigned".
TodoItem(i, c, d) == [todo_id |-> i, content |-> c, completed |-> d]

NoObj == TodoItem(0, Null, FALSE)

RowIds(t) == { t[i].todo_id : i \in 1..Len(t) }

HasRow(t, id) == id \in RowIds(t)

\* db.query(TodoItem).filter(TodoItem.todo_id == id).first()
First(t, id) ==
    IF HasRow(t, id)
    THEN t[CHOOSE i \in 1..Len(t) : t[i].todo_id = id]
    ELSE NoObj

MaxOf(S) == IF S = {} THEN 0 ELSE CHOOSE m \in S : \A x \in S : x <= m

\* Mutant: the new id is the number of rows plus one.
NewRowIdByCount(t) == Len(t) + 1

\* The rowid SQLite gives to an inserted row.
NewRowId(t) == MaxOf(RowIds(t)) + 1

\* Mutant: the DELETE is never committed.
WithoutCommit(t, id) == t

\* DELETE FROM todos WHERE todo_id = id
RECURSIVE Without(_, _)
Without(t, id) ==
    IF t = <<>> THEN <<>>
    ELSE IF Head(t).todo_id = id THEN Without(Tail(t), id)
    ELSE <<Head(t)>> \o Without(Tail(t), id)

\* UPDATE todos SET <cols> WHERE todo_id = id
Replace(t, id, new) ==
    [i \in 1..Len(t) |-> IF t[i].todo_id = id THEN new ELSE t[i]]

Min(a, b) == IF a <= b THEN a ELSE b
Max(a, b) == IF a >= b THEN a ELSE b

\* Mutant: limit counts from the start of the table, not from the offset.
OffsetLimitFromStart(t, skip, limit) ==
    LET from == (IF skip >= 0 THEN skip ELSE 0) + 1
        to   == IF limit < 0 THEN Len(t)
                ELSE IF limit <= Len(t) THEN limit ELSE Len(t)
    IN  IF from > to THEN <<>> ELSE SubSeq(t, from, to)

\* db.query(TodoItem).offset(skip).limit(limit).all()
OffsetLimit(t, skip, limit) ==
    LET from == Max(skip, 0) + 1
        to   == IF limit < 0 THEN Len(t) ELSE Min(Len(t), from + limit - 1)
    IN  IF from > to THEN <<>> ELSE SubSeq(t, from, to)

\* ---------------------------------------------------------------- requests
Ops == {"read_todos", "read_todo", "create_todo", "update_todo", "delete_todo"}

Req(op, id, body, skip, limit) ==
    [op |-> op, todo_id |-> id, body |-> body, skip |-> skip, limit |-> limit]

NoReq == Req("none", 0, NoBody, 0, 0)

Ints == (0 - 1)..(MaxId - 1)   \* values offered for skip and limit

Requests ==
    { Req("read_todos", 0, NoBody, s, l) : s \in Ints, l \in Ints }
    \cup { Req("read_todo", i, NoBody, 0, 0) : i \in Ids }
    \cup { Req("create_todo", 0, b, 0, 0) : b \in Bodies }
    \cup { Req("update_todo", i, b, 0, 0) : i \in Ids, b \in Bodies }
    \cup { Req("delete_todo", i, NoBody, 0, 0) : i \in Ids }

\* --------------------------------------------------------------- responses
Resp(status, rows, detail) == [status |-> status, rows |-> rows, detail |-> detail]

NoResp == Resp(0, <<>>, "")

\* Mutant: a missing row is answered as a bad request.
NotFoundAsBadRequest == Resp(400, <<>>, "Todo not found")

\* raise HTTPException(status_code=404, detail="Todo not found")
NotFound == Resp(404, <<>>, "Todo not found")

ValidationError == Resp(422, <<>>, "")

StorageError == Resp(500, <<>>, "")

Deleted == Resp(200, <<>>, "Todo deleted successfully")

\* ---------------------------------------------------------------- sessions
\* A Session: open or closed, the object it holds (db_todo) and the column
\* values that object had when it was loaded.
Sess(open, obj, loaded) == [open |-> open, obj |-> obj, loaded |-> loaded]

ClosedSess == Sess(FALSE, NoObj, NoObj)

VARIABLES
    todos,       \* the table, rows in ascending todo_id
    pc,          \* pc[p]: where request slot p stands
    req,         \* req[p]: the request slot p is serving
    db,          \* db[p]: the Session handed to p by get_db (0: none)
    sessions,    \* sessions[s]: state of Session s
    response,    \* response[p]: what the request answers
    matched,     \* matched[p]: rowcount of p's UPDATE / DELETE: 1 when p's row
                 \* was in the table at p's commit (history when the commit
                 \* had nothing to write)
    interfered   \* history: another request wrote p's row while p was served

vars == <<todos, pc, req, db, sessions, response, matched, interfered>>

\* SessionLocal(): a Session object that no request holds.
SessionLocal == CHOOSE s \in Sids : ~sessions[s].open /\ \A q \in Procs : db[q] # s

\* Mutant: db.close() after the yield without try/finally.
ClosesOnReturnOnly(resp) == resp.status = 200

\* try: yield db / finally: db.close() -- the responses after which close runs.
FinallyCloses(resp) == TRUE

\* The id request q is about: its path parameter, or the id its INSERT got.
Target(q) ==
    IF req[q].op # "create_todo" THEN req[q].todo_id
    ELSE IF db[q] # 0 THEN sessions[db[q]].obj.todo_id
    ELSE IF response[q].rows # <<>> THEN response[q].rows[1].todo_id
    ELSE 0

\* History: request p has just committed a change of row id.
Wrote(p, id) ==
    [q \in Procs |->
        IF q # p /\ pc[q] # "idle" /\ (req[q].op = "read_todos" \/ Target(q) = id)
        THEN TRUE ELSE interfered[q]]

Init ==
    /\ todos = <<>>
    /\ pc = [p \in Procs |-> "idle"]
    /\ req = [p \in Procs |-> NoReq]
    /\ db = [p \in Procs |-> 0]
    /\ sessions = [s \in Sids |-> ClosedSess]
    /\ response = [p \in Procs |-> NoResp]
    /\ matched = [p \in Procs |-> 0]
    /\ interfered = [p \in Procs |-> FALSE]

\* A request arrives.  Before the framework calls the handler it resolves
\* Depends(get_db) -- db = SessionLocal(); yield db -- and binds the body to
\* "todo: TodoCreate"; a body that fails validation answers 422 and the
\* handler is not called.
Dispatch(p) ==
    /\ pc[p] = "idle"
    /\ \E r \in Requests :
        /\ req' = [req EXCEPT ![p] = r]
        /\ IF r.op \in {"create_todo", "update_todo"} /\ ~ValidBody(r.body)
           THEN /\ response' = [response EXCEPT ![p] = ValidationError]
                /\ pc' = [pc EXCEPT ![p] = "close"]
           ELSE /\ pc' = [pc EXCEPT ![p] = "handler"]
                /\ UNCHANGED response
    /\ db' = [db EXCEPT ![p] = SessionLocal]
    /\ sessions' = [sessions EXCEPT ![SessionLocal] = Sess(TRUE, NoObj, NoObj)]
    /\ UNCHANGED <<todos, matched, interfered>>

\* read_todos
read_todos(p) ==
    /\ pc[p] = "handler"
    /\ req[p].op = "read_todos"
    /\ response' = [response EXCEPT ![p] =
                       Resp(200, OffsetLimit(todos, req[p].skip, req[p].limit), "")]
    /\ pc' = [pc EXCEPT ![p] = "close"]
    /\ UNCHANGED <<todos, req, db, sessions, matched, interfered>>

\* read_todo
read_todo(p) ==
    /\ pc[p] = "handler"
    /\ req[p].op = "read_todo"
    /\ response' = [response EXCEPT ![p] =
                       IF HasRow(todos, req[p].todo_id)
                       THEN Resp(200, <<First(todos, req[p].todo_id)>>, "")
                       ELSE NotFound]
    /\ pc' = [pc EXCEPT ![p] = "close"]
    /\ UNCHANGED <<todos, req, db, sessions, matched, interfered>>

\* create_todo: db_todo = TodoItem(**todo.model_dump()); db.add(db_todo)
create_todo_add(p) ==
    /\ pc[p] = "handler"
    /\ req[p].op = "create_todo"
    /\ LET d == model_dump(req[p].body)
       IN  sessions' = [sessions EXCEPT ![db[p]].obj = TodoItem(0, d.content, d.completed)]
    /\ pc' = [pc EXCEPT ![p] = "insert"]
    /\ UNCHANGED <<todos, req, db, response, matched, interfered>>

\* create_todo: db.commit() -- INSERT INTO todos (content, completed); COMMIT
create_todo_commit(p) ==
    /\ pc[p] = "insert"
    /\ NewRowId(todos) <= MaxId
    /\ LET id  == NewRowId(todos)
           obj == sessions[db[p]].obj
           row == TodoItem(id, obj.content, obj.completed)
       IN  /\ todos' = Append(todos, row)
           /\ sessions' = [sessions EXCEPT ![db[p]].obj = row]
           /\ interfered' = Wrote(p, id)
    /\ pc' = [pc EXCEPT ![p] = "refresh"]
    /\ UNCHANGED <<req, db, response, matched>>

\* db.refresh(db_todo); return db_todo -- SELECT .. WHERE todo_id = ?, which
\* raises when the row is gone.
Refreshed(p) ==
    LET id == sessions[db[p]].obj.todo_id
    IN  IF HasRow(todos, id)
        THEN /\ sessions' = [sessions EXCEPT ![db[p]] =
                                Sess(TRUE, First(todos, id), First(todos, id))]
             /\ response' = [response EXCEPT ![p] =
                                Resp(200, <<First(todos, id)>>, "")]
        ELSE /\ response' = [response EXCEPT ![p] = StorageError]
             /\ UNCHANGED sessions

\* create_todo: db.refresh(db_todo); return db_todo
create_todo_refresh(p) ==
    /\ pc[p] = "refresh"
    /\ req[p].op = "create_todo"
    /\ Refreshed(p)
    /\ pc' = [pc EXCEPT ![p] = "close"]
    /\ UNCHANGED <<todos, req, db, matched, interfered>>

\* db_todo = db.query(TodoItem).filter(TodoItem.todo_id == todo_id).first()
\* if db_todo is None: raise HTTPException(status_code=404, ..)
Queried(p, found) ==
    IF HasRow(todos, req[p].todo_id)
    THEN /\ sessions' = [sessions EXCEPT ![db[p]] =
                            Sess(TRUE, First(todos, req[p].todo_id),
                                       First(todos, req[p].todo_id))]
         /\ pc' = [pc EXCEPT ![p] = found]
         /\ UNCHANGED response
    ELSE /\ response' = [response EXCEPT ![p] = NotFound]
         /\ pc' = [pc EXCEPT ![p] = "close"]
         /\ UNCHANGED sessions

\* update_todo: the query and the 404
update_todo_query(p) ==
    /\ pc[p] = "handler"
    /\ req[p].op = "update_todo"
    /\ Queried(p, "setattr")
    /\ UNCHANGED <<todos, req, db, matched, interfered>>

\* delete_todo: the query and the 404
delete_todo_query(p) ==
    /\ pc[p] = "handler"
    /\ req[p].op = "delete_todo"
    /\ Queried(p, "delete")
    /\ UNCHANGED <<todos, req, db, matched, interfered>>

\* setattr(db_todo, key, value)
setattr(obj, key, value) ==
    IF key = "content" THEN [obj EXCEPT !.content = value]
    ELSE [obj EXCEPT !.completed = value]

\* update_todo: for key, value in todo.model_dump().items(): setattr(..)
update_todo_setattr(p) ==
    /\ pc[p] = "setattr"
    /\ LET d  == model_dump(req[p].body)
           ks == DumpKeys(req[p].body)
           o0 == sessions[db[p]].obj
           o1 == IF "content" \in ks THEN setattr(o0, "content", d.content) ELSE o0
           o2 == IF "completed" \in ks THEN setattr(o1, "completed", d.completed) ELSE o1
       IN  sessions' = [sessions EXCEPT ![db[p]].obj = o2]
    /\ pc' = [pc EXCEPT ![p] = "update"]
    /\ UNCHANGED <<todos, req, db, response, matched, interfered>>

\* The row an UPDATE of the changed columns of obj leaves, given the row cur
\* that is in the table now.
Flushed(cur, obj, loaded) ==
    TodoItem(cur.todo_id,
        IF obj.content # loaded.content THEN obj.content ELSE cur.content,
        IF obj.completed # loaded.completed THEN obj.completed ELSE cur.completed)

\* update_todo: db.commit() -- flush the changed columns, COMMIT.  Nothing is
\* written when no column changed; an UPDATE that matches no row raises.
update_todo_commit(p) ==
    /\ pc[p] = "update"
    /\ LET s  == sessions[db[p]]
           id == s.obj.todo_id
       IN  IF s.obj = s.loaded
           THEN /\ matched' = [matched EXCEPT ![p] = IF HasRow(todos, id) THEN 1 ELSE 0]
                /\ pc' = [pc EXCEPT ![p] = "refresh"]
                /\ UNCHANGED <<todos, response, interfered>>
           ELSE IF HasRow(todos, id)
           THEN /\ todos' = Replace(todos, id, Flushed(First(todos, id), s.obj, s.loaded))
                /\ matched' = [matched EXCEPT ![p] = 1]
                /\ interfered' = IF todos' # todos THEN Wrote(p, id) ELSE interfered
                /\ pc' = [pc EXCEPT ![p] = "refresh"]
                /\ UNCHANGED response
           ELSE /\ response' = [response EXCEPT ![p] = StorageError]
                /\ pc' = [pc EXCEPT ![p] = "close"]
                /\ UNCHANGED <<todos, matched, interfered>>
    /\ UNCHANGED <<req, db, sessions>>

\* update_todo: db.refresh(db_todo); return db_todo
update_todo_refresh(p) ==
    /\ pc[p] = "refresh"
    /\ req[p].op = "update_todo"
    /\ Refreshed(p)
    /\ pc' = [pc EXCEPT ![p] = "close"]
    /\ UNCHANGED <<todos, req, db, matched, interfered>>

\* delete_todo: db.delete(db_todo); db.commit(); return {"message": ..}
\* -- DELETE FROM todos WHERE todo_id = ?; COMMIT.  A DELETE that matches no
\* row is not an error.
delete_todo_commit(p) ==
    /\ pc[p] = "delete"
    /\ LET id == sessions[db[p]].obj.todo_id
       IN  /\ todos' = Without(todos, id)
           /\ matched' = [matched EXCEPT ![p] = IF HasRow(todos, id) THEN 1 ELSE 0]
           /\ interfered' = IF todos' # todos THEN Wrote(p, id) ELSE interfered
    /\ response' = [response EXCEPT ![p] = Deleted]
    /\ pc' = [pc EXCEPT ![p] = "close"]
    /\ UNCHANGED <<req, db, sessions>>

\* get_db: finally: db.close()
get_db_finally(p) ==
    /\ pc[p] = "close"
    /\ IF FinallyCloses(response[p])
       THEN /\ sessions' = [sessions EXCEPT ![db[p]] = ClosedSess]
            /\ db' = [db EXCEPT ![p] = 0]
       ELSE UNCHANGED <<sessions, db>>
    /\ pc' = [pc EXCEPT ![p] = "done"]
    /\ UNCHANGED <<todos, req, response, matched, interfered>>

\* The response has been sent; the slot is free for the next request.
Finish(p) ==
    /\ pc[p] = "done"
    /\ pc' = [pc EXCEPT ![p] = "idle"]
    /\ req' = [req EXCEPT ![p] = NoReq]
    /\ response' = [response EXCEPT ![p] = NoResp]
    /\ matched' = [matched EXCEPT ![p] = 0]
    /\ interfered' = [interfered EXCEPT ![p] = FALSE]
    /\ UNCHANGED <<todos, db, sessions>>

Next ==
    \E p \in Procs :
        \/ Dispatch(p)
        \/ read_todos(p)
        \/ read_todo(p)
        \/ create_todo_add(p)
        \/ create_todo_commit(p)
        \/ create_todo_refresh(p)
        \/ update_todo_query(p)
        \/ update_todo_setattr(p)
        \/ update_todo_commit(p)
        \/ update_todo_refresh(p)
        \/ delete_todo_query(p)
        \/ delete_todo_commit(p)
        \/ get_db_finally(p)
        \/ Finish(p)

Spec == Init /\ [][Next]_vars

\* ================================================================== claims
TypeOK ==
    /\ pc \in [Procs -> {"idle", "handler", "insert", "refresh", "setattr",
                         "update", "delete", "close", "done"}]
    /\ db \in [Procs -> Sids \cup {0}]
    /\ matched \in [Procs -> {0, 1}]
    /\ interfered \in [Procs -> BOOLEAN]
    /\ Len(todos) <= MaxId

Done(p) == pc[p] = "done"

InFlight(p) == pc[p] \notin {"idle", "done"}

\* No other request has changed the row p is about since p was dispatched.
Quiet(p) == ~interfered[p]

\* A body that satisfies the TodoInput schema: content is text, completed is
\* a boolean or absent.
WellFormed(body) ==
    body.content.t = "str" /\ body.completed.t \in {"bool", "missing"}

\* The record that a well-formed input describes: its content, and its
\* completed flag, false when the input omits it.
InputRow(id, body) ==
    [todo_id |-> id, content |-> body.content.s,
     completed |-> (body.completed.t = "bool" /\ body.completed.b)]

\* No record with p's id existed at any moment of p's service: nobody else
\* wrote that row, p itself changed no row, and the row is not there.
AbsentThroughout(p) ==
    /\ Quiet(p)
    /\ matched[p] = 0
    /\ ~HasRow(todos, req[p].todo_id)

ById == {"read_todo", "update_todo", "delete_todo"}

C2_UpdateOverwritesBothFields ==
    \A p \in Procs :
        (/\ Done(p) /\ req[p].op = "update_todo" /\ WellFormed(req[p].body)
         /\ Quiet(p) /\ HasRow(todos, req[p].todo_id))
        => LET new == InputRow(req[p].todo_id, req[p].body)
           IN  /\ response[p].status = 200
               /\ response[p].rows = <<new>>
               /\ First(todos, req[p].todo_id) = new
               /\ \A q \in Procs :
                    (/\ Done(q) /\ req[q].op = "read_todo" /\ Quiet(q)
                     /\ req[q].todo_id = req[p].todo_id)
                    => (response[q].status = 200 /\ response[q].rows = <<new>>)

\* An Update that omits completed has answered, and a Get of the same id
\* after it has answered too.
C2_Witness ==
    \E p, q \in Procs :
        /\ Done(p) /\ req[p].op = "update_todo" /\ Quiet(p)
        /\ req[p].body.content.t = "str" /\ req[p].body.completed.t = "missing"
        /\ response[p].status = 200
        /\ Done(q) /\ req[q].op = "read_todo" /\ Quiet(q)
        /\ req[q].todo_id = req[p].todo_id /\ response[q].status = 200

\* C3: once two Updates of the same id have both answered with success, the
\* stored record is the full input of one of them, never one's content with
\* the other's completed.
C3_LastWriteWins ==
    \A p, q \in Procs :
        (/\ p # q /\ Done(p) /\ Done(q)
         /\ req[p].op = "update_todo" /\ req[q].op = "update_todo"
         /\ req[p].todo_id = req[q].todo_id
         /\ response[p].status = 200 /\ response[q].status = 200)
        => /\ HasRow(todos, req[p].todo_id)
           /\ First(todos, req[p].todo_id) \in
                 { InputRow(req[p].todo_id, req[p].body),
                   InputRow(req[q].todo_id, req[q].body) }

\* C4: a Create with valid content and no completed, with no other write to
\* the new row meanwhile, answers a record with an id the storage assigned,
\* the same content and completed = false; a following Get of that id
\* answers the same record.
C4_CreateThenGet ==
    \A p \in Procs :
        (/\ Done(p) /\ req[p].op = "create_todo" /\ Quiet(p)
         /\ req[p].body.content.t = "str" /\ req[p].body.completed.t = "missing")
        => /\ response[p].status = 200
           /\ Len(response[p].rows) = 1
           /\ response[p].rows[1].todo_id >= 1
           /\ response[p].rows[1].content = req[p].body.content.s
           /\ response[p].rows[1].completed = FALSE
           /\ \A q \in Procs :
                (/\ Done(q) /\ req[q].op = "read_todo" /\ Quiet(q)
                 /\ req[q].todo_id = response[p].rows[1].todo_id)
                => (response[q].status = 200 /\ response[q].rows = response[p].rows)

\* A Create without completed has answered and a Get of the id it returned
\* has answered after it.
C4_Witness ==
    \E p, q \in Procs :
        /\ Done(p) /\ req[p].op = "create_todo" /\ Quiet(p)
        /\ req[p].body.completed.t = "missing" /\ response[p].status = 200
        /\ Done(q) /\ req[q].op = "read_todo" /\ Quiet(q)
        /\ response[q].status = 200
        /\ req[q].todo_id = response[p].rows[1].todo_id

\* C5: after a Delete has answered with success, and until another request
\* writes a row with that id, the table holds no row with the id, a Get of
\* the id answers 404 and no List answers a row with the id.
C5_DeleteThenGetNotFound ==
    \A p \in Procs :
        (Done(p) /\ req[p].op = "delete_todo" /\ response[p].status = 200 /\ Quiet(p))
        => /\ ~HasRow(todos, req[p].todo_id)
           /\ \A q \in Procs :
                (Done(q) /\ Quiet(q))
                => /\ (req[q].op = "read_todo" /\ req[q].todo_id = req[p].todo_id)
                        => response[q].status = 404
                   /\ (req[q].op = "read_todos")
                        => req[p].todo_id \notin RowIds(response[q].rows)

\* A Delete has succeeded and a Get of the same id has answered after it.
C5_Witness ==
    \E p, q \in Procs :
        /\ Done(p) /\ req[p].op = "delete_todo" /\ response[p].status = 200
        /\ Quiet(p) /\ matched[p] = 1
        /\ Done(q) /\ req[q].op = "read_todo" /\ Quiet(q)
        /\ req[q].todo_id = req[p].todo_id

\* The rows of t are in ascending todo_id.
Ascending(t) == \A i, j \in 1..Len(t) : i < j => t[i].todo_id < t[j].todo_id

\* rows are the rows of t that follow the first k rows, n of them.
RowsAfter(rows, t, k, n) ==
    /\ Len(rows) = n
    /\ \A i \in 1..n : rows[i] = t[k + i]

InvalidCreate(r) == r.op = "create_todo" /\ r.body.content.t # "str"

\* C7: a Create whose input fails validation ends in 422 without reaching
\* the handler, and no step of it changes the table.
C7_InvalidCreateLeavesStore ==
    /\ [](\A p \in Procs :
            InvalidCreate(req[p])
                => (pc[p] \in {"close", "done"} /\ response[p].status = 422))
    /\ [][\A p \in Procs :
            ((InvalidCreate(req[p]) \/ InvalidCreate(req'[p])) /\ pc'[p] # pc[p])
                => todos' = todos]_vars

\* A Create without content has answered 422 while the table holds a record.
C7_Witness ==
    \E p \in Procs :
        /\ Done(p) /\ InvalidCreate(req[p]) /\ response[p].status = 422
        /\ req[p].body.content.t = "missing"
        /\ todos # <<>>

\* C8: a request in service holds one open session that no other request
\* holds; a request that has answered, by return, 404 or 422, holds none and
\* its session is closed; the open sessions are exactly those of the
\* requests in service.
C8_SessionPerRequest ==
    /\ \A p \in Procs :
        IF InFlight(p)
        THEN db[p] \in Sids /\ sessions[db[p]].open
        ELSE db[p] = 0
    /\ \A p, q \in Procs : (p # q /\ db[p] # 0) => db[p] # db[q]
    /\ { s \in Sids : sessions[s].open } = { db[p] : p \in { q \in Procs : InFlight(q) } }

\* One request has answered 404 and one 422, both sessions closed, after two
\* requests were in service together.
C8_Witness ==
    \E p, q \in Procs :
        /\ Done(p) /\ response[p].status = 404
        /\ Done(q) /\ response[q].status = 422
        /\ \A s \in Sids : ~sessions[s].open

\* C9: the stored records have pairwise different ids and a content that is
\* not null.
C9_UniqueIdsContentNotNull ==
    /\ \A i, j \in 1..Len(todos) : i # j => todos[i].todo_id # todos[j].todo_id
    /\ \A i \in 1..Len(todos) : todos[i].content # Null

\* The table holds two records, the id of a deleted one having been reused.
C9_Witness ==
    /\ Len(todos) >= 2
    /\ \E p \in Procs :
        /\ Done(p) /\ req[p].op = "delete_todo" /\ matched[p] = 1
        /\ HasRow(todos, req[p].todo_id)

\* C10: a Delete or an Update answers with success only if the row was
\* still in the table when its own commit took effect; so of several
\* concurrent Deletes of a record at most one succeeds.
C10_SuccessOnlyIfRowExisted ==
    \A p \in Procs :
        (Done(p) /\ req[p].op \in {"delete_todo", "update_todo"}
            /\ response[p].status = 200)
        => matched[p] = 1

====
